---- MODULE Spec2Model ----
(***************************************************************************)
(* A model of testmachine's TestMachine (testmachine/testmachine.py): the  *)
(* failure search (find_failing_program), the prefix bisection             *)
(* (find_failing_initial_segment), the shrinker (prune_program, shrink,    *)
(* minimize_failing_program), the failure oracle (program_fails, in        *)
(* process or in a forked child) and the orchestration (run,               *)
(* print_program_results).                                                 *)
(*                                                                         *)
(* Operations and RunContext live in operations.py and context.py, which   *)
(* are not part of the sources at hand; their behaviour is modelled from   *)
(* the written specification (Operations, Applicable, SimRaises,           *)
(* SimExecute, RealRun, Generable).                                        *)
(***************************************************************************)
EXTENDS Integers, Sequences, FiniteSets, TLC

(***************************************************************************)
(* Bounds of the model.                                                    *)
(***************************************************************************)
\* longest program generate_program builds (prog_length) in Spec
MaxLen == 2
\* largest attempt budget (n_iters) in Spec
MaxIters == 3
\* largest early-stop target (good_enough) in Spec
MaxGood == 2
\* longest program handed to minimize_failing_program in SpecMinimize
MaxMinLen == 3
\* longest program handed to find_failing_initial_segment in SpecBisect
MaxBisectLen == 5
\* largest attempt budget (n_iters) in SpecSearch
MaxSearchIters == 2

(***************************************************************************)
(* Operations, and the simulated context (context.py, operations.py).      *)
(* A simulation context is reduced to one resource height.                 *)
(*   Push, Pop : act on the subject only; no height requirement            *)
(*   Make      : defines a variable (height + 1)                           *)
(*   Use       : consumes a variable; applicable only at height >= 1       *)
(*   Peek      : reads a variable; its applicable() is lax (always true)   *)
(*               and its simulated execution raises at height 0            *)
(***************************************************************************)
Operations == {"Push", "Pop", "Make", "Use", "Peek"}

\* the grammars a machine is built with (TestMachine.add)
Grammars == {{"Push", "Pop"}, {"Make", "Use", "Peek"}}

\* operation.applicable(context.heights())
Applicable(operation, h) == (operation = "Use") => h >= 1

\* context.execute(operation) raises, simulation context
SimRaises(operation, h) == operation = "Peek" /\ h = 0

\* the heights after context.execute(operation), simulation context
SimExecute(operation, h) ==
  CASE operation = "Make" -> h + 1
    [] operation = "Use" -> h - 1
    [] OTHER -> h

\* all sequences over S of length exactly n
RECURSIVE SeqsOfLen(_, _)
SeqsOfLen(S, n) ==
  IF n = 0 THEN {<<>>}
  ELSE {Append(s, x) : s \in SeqsOfLen(S, n - 1), x \in S}

\* all sequences over S of length at most n
SeqsUpTo(S, n) == UNION {SeqsOfLen(S, k) : k \in 0..n}

\* the value None
None == <<"None">>

\* program[:n]
Prefix(program, n) == SubSeq(program, 1, n)

(***************************************************************************)
(* generate_program: prog_length operations, each one the language         *)
(* generated for the current simulated context and then executed on it.    *)
(* SimTrace(program, k) is the height before program[k], or -1 when an     *)
(* earlier operation was not applicable or raised.                         *)
(***************************************************************************)
RECURSIVE SimTrace(_, _)
SimTrace(program, k) ==
  IF k = 1 THEN 0
  ELSE LET h == SimTrace(program, k - 1)
           operation == program[k - 1]
       IN IF h < 0 \/ ~Applicable(operation, h) \/ SimRaises(operation, h)
          THEN -1
          ELSE SimExecute(operation, h)

\* the programs generate_program can return
Generable(languages, n) ==
  {program \in SeqsOfLen(languages, n) : SimTrace(program, n + 1) >= 0}

\* generate_program can raise: some generated operation raises when simulated
GenerationCanRaise(languages, n) ==
  \E k \in 1..n : \E program \in SeqsOfLen(languages, k) :
    /\ SimTrace(program, k) >= 0
    /\ Applicable(program[k], SimTrace(program, k))
    /\ SimRaises(program[k], SimTrace(program, k))

(***************************************************************************)
(* prune_program: replay on a fresh simulation context, skipping the       *)
(* operations that are not applicable, keeping the others, and stopping    *)
(* after the first kept operation whose execution raises.                  *)
(***************************************************************************)
RECURSIVE PruneFrom(_, _, _, _)
PruneFrom(program, k, h, results) ==
  IF k > Len(program) THEN results
  ELSE LET operation == program[k]
       IN IF ~Applicable(operation, h)
          THEN PruneFrom(program, k + 1, h, results)
          ELSE IF SimRaises(operation, h)
               THEN Append(results, operation)
               ELSE PruneFrom(program, k + 1, SimExecute(operation, h),
                              Append(results, operation))

\* a mutant that keeps every operation
prune_program_KeepAll(program) == program

prune_program(program) == PruneFrom(program, 1, 0, <<>>)

\* del copy[i], with i counted from 1
DelAt(s, i) == SubSeq(s, 1, i - 1) \o SubSeq(s, i + 1, Len(s))

\* the copy shrink takes of the program before the first del (a mutant
\* that forgets the del leaves the copy whole)
Shrink_NoDelete(program, i) == program

\* copy = list(program); del copy[i]
ShrinkCopy(program, i) == DelAt(program, i)

(***************************************************************************)
(* shrink: the candidates in the order the generator yields them; for      *)
(* each index the program without operation i, then, when an operation     *)
(* follows, without operations i and i+1, both pruned.                     *)
(***************************************************************************)
RECURSIVE ShrinkFrom(_, _)
ShrinkFrom(program, i) ==
  IF i > Len(program) THEN <<>>
  ELSE LET copy == ShrinkCopy(program, i)
       IN <<prune_program(copy)>>
          \o (IF i <= Len(copy) THEN <<prune_program(DelAt(copy, i))>> ELSE <<>>)
          \o ShrinkFrom(program, i + 1)

shrink(program) == ShrinkFrom(program, 1)

(***************************************************************************)
(* Real execution, RunContext().run_program(program).  Its outcome is      *)
(*   "ok"   : no exception                                                 *)
(*   "exc"  : an exception deriving from Exception                         *)
(*   "base" : an exception that does not (SystemExit, KeyboardInterrupt)   *)
(***************************************************************************)
Outcomes == {"ok", "exc", "base"}

Raised(o) == o # "ok"

\* the integer-stack subject: Pop on the empty stack raises
RECURSIVE StackRun(_, _, _)
StackRun(program, k, depth) ==
  IF k > Len(program) THEN "ok"
  ELSE CASE program[k] = "Push" -> StackRun(program, k + 1, depth + 1)
         [] program[k] = "Pop" ->
              IF depth = 0 THEN "exc" ELSE StackRun(program, k + 1, depth - 1)
         [] OTHER -> StackRun(program, k + 1, depth)


(***************************************************************************)
(* The state: the machine's fields, the subject under test, the position   *)
(* of the control flow and the locals of the methods on the stack.         *)
(***************************************************************************)
VARIABLES
  fork, print_output, n_iters, prog_length, good_enough, languages,
  subject,        \* "stack", "table" (deterministic, any answers), "flaky"
  entry,          \* the public method that was called
  pc, err,
  iter, examples_found, best_example, program, low, high,
  examples,       \* the examples find_failing_program recorded, in order
  queries,        \* the oracle calls find_failing_initial_segment has made
  mprog, current_best, si,
  pass, result1,  \* minimize called again on its own result
  arg, ret, result, child,
  last,           \* the latest oracle query: real outcome and answer
  table,          \* the deterministic subject's outcomes decided so far
  trueOn,         \* the programs this minimize call was told are failing
  first_try, minimal, returned,
  replay,         \* outcome of the real replay of print_program_results
  origin          \* the generated program the best example is a prefix of

config == <<fork, print_output, n_iters, prog_length, good_enough, languages,
            subject, entry>>
search == <<iter, examples_found, best_example, program, low, high, examples,
            queries>>
shrinker == <<mprog, current_best, si, pass, result1>>
oracle == <<arg, ret, result, child, last, table, trueOn>>
runv == <<first_try, minimal, returned, replay, origin>>
vars == <<config, search, shrinker, oracle, runv, pc, err>>

NoChild == [kind |-> "none", st |-> "none", status |-> 0]
NoLast == [outcome |-> "none", answer |-> "none"]
EmptyTable == [p \in {} |-> "ok"]

\* the locals every entry point starts from, but for its argument
FreshLocals ==
  /\ err = "none"
  /\ iter = 0 /\ examples_found = 0 /\ best_example = None
  /\ low = 0 /\ high = 0 /\ examples = <<>> /\ queries = 0
  /\ current_best = <<>> /\ si = 0 /\ trueOn = {}
  /\ pass = 1 /\ result1 = None
  /\ arg = <<>> /\ ret = "none" /\ result = FALSE /\ child = NoChild
  /\ last = NoLast
  /\ first_try = <<>> /\ minimal = <<>> /\ returned = None
  /\ replay = "none" /\ origin = <<>>

(***************************************************************************)
(* The outcomes a real run of p can have.  The empty program executes      *)
(* nothing.  A deterministic subject repeats an outcome it gave before.    *)
(***************************************************************************)
RealRun(p) ==
  IF p = <<>> THEN {"ok"}
  ELSE CASE subject = "stack" -> {StackRun(p, 1, 0)}
         [] subject = "table" ->
              IF p \in DOMAIN table THEN {table[p]} ELSE Outcomes
         [] OTHER -> Outcomes

Remember(p, o) ==
  IF subject = "table" /\ p # <<>> /\ p \notin DOMAIN table
  THEN (p :> o) @@ table
  ELSE table

\* self.program_fails(p), to continue at r
Call(p, r) ==
  /\ arg' = p /\ ret' = r /\ pc' = "program_fails"
  /\ UNCHANGED <<result, child, last, table, trueOn>>

\* the answers given to minimize_failing_program are noted in trueOn
Told(answer) ==
  IF answer /\ ret \in {"min_assert", "min_ret"}
  THEN trueOn \cup {arg} ELSE trueOn

(***************************************************************************)
(* program_fails                                                           *)
(***************************************************************************)
\* what the in-process branch makes of an outcome: try: run_program;
\* return False; except Exception: return True
InProcessAnswer(o) ==
  CASE o = "ok" -> "false"
    [] o = "exc" -> "true"
    [] OTHER -> "escaped"

\* what the child's exit status is: a bare except and os._exit(1), or
\* os._exit(0)
ChildStatus(o) == IF Raised(o) THEN 1 ELSE 0

\* the in-process branch
ProgramFailsInProcess ==
  /\ pc = "program_fails" /\ ~fork
  /\ \E o \in RealRun(arg) :
       /\ table' = Remember(arg, o)
       /\ last' = [outcome |-> o, answer |-> InProcessAnswer(o)]
       /\ IF InProcessAnswer(o) = "escaped"
          THEN /\ pc' = "crashed" /\ err' = "BaseException"
               /\ UNCHANGED <<result, trueOn>>
          ELSE /\ pc' = ret /\ result' = (InProcessAnswer(o) = "true")
               /\ trueOn' = Told(InProcessAnswer(o) = "true")
               /\ UNCHANGED err
  /\ UNCHANGED <<config, search, shrinker, runv, arg, ret, child>>

\* pid = os.fork(), parent side
ProgramFailsFork ==
  /\ pc = "program_fails" /\ fork
  /\ child = NoChild
  /\ child' = [kind |-> "oracle", st |-> "running", status |-> 0]
  /\ pc' = "waitpid"
  /\ UNCHANGED <<config, search, shrinker, runv, arg, ret, result, last,
                 table, trueOn, err>>

\* the child: run_program, then os._exit
ChildProgramFails ==
  /\ child.kind = "oracle" /\ child.st = "running"
  /\ \E o \in RealRun(arg) :
       /\ table' = Remember(arg, o)
       /\ child' = [kind |-> "oracle", st |-> "exited",
                    status |-> ChildStatus(o)]
       /\ last' = [outcome |-> o, answer |-> "none"]
  /\ UNCHANGED <<config, search, shrinker, runv, arg, ret, result, trueOn,
                 pc, err>>

\* a mutant that does not block: it reads a status while the child runs
ProgramFailsWait_NoWait ==
  /\ pc = "waitpid" /\ child.kind = "oracle"
  /\ result' = (child.status # 0)
  /\ trueOn' = Told(child.status # 0)
  /\ last' = [last EXCEPT
                !.answer = IF child.status # 0 THEN "true" ELSE "false"]
  /\ child' = NoChild
  /\ pc' = ret
  /\ UNCHANGED <<config, search, shrinker, runv, arg, ret, table, err>>

\* pid, status = os.waitpid(pid, 0); return status != 0
ProgramFailsWait ==
  /\ pc = "waitpid" /\ child.kind = "oracle" /\ child.st = "exited"
  /\ result' = (child.status # 0)
  /\ trueOn' = Told(child.status # 0)
  /\ last' = [last EXCEPT
                !.answer = IF child.status # 0 THEN "true" ELSE "false"]
  /\ child' = NoChild
  /\ pc' = ret
  /\ UNCHANGED <<config, search, shrinker, runv, arg, ret, table, err>>

(***************************************************************************)
(* find_failing_program                                                    *)
(***************************************************************************)
\* the locals are gone once find_failing_program has returned or raised
SearchOver ==
  /\ iter' = 0 /\ examples_found' = 0 /\ best_example' = None
  /\ program' = <<>> /\ low' = 0 /\ high' = 0 /\ examples' = <<>>
  /\ queries' = 0

\* run(): first_try = self.find_failing_program()
RunCall ==
  /\ pc = "run_call"
  /\ pc' = "ffp_loop"
  /\ UNCHANGED <<config, search, shrinker, oracle, runv, err>>

\* one more round of the loop: generate a program and ask the oracle
FindGenerate ==
  /\ pc = "ffp_loop" /\ iter < n_iters
  /\ \E p \in Generable(languages, prog_length) :
       /\ program' = p
       /\ Call(p, "ffp_checked")
  /\ iter' = iter + 1
  /\ UNCHANGED <<config, examples_found, best_example, low, high, examples,
                 queries, shrinker, runv, err>>

\* generate_program lets an exception of the simulated execution through
FindGenerateRaises ==
  /\ pc = "ffp_loop" /\ iter < n_iters
  /\ GenerationCanRaise(languages, prog_length)
  /\ pc' = "crashed" /\ err' = "GeneratorError"
  /\ iter' = iter + 1
  /\ UNCHANGED <<config, examples_found, best_example, program, low, high,
                 examples, queries, shrinker, oracle, runv>>

\* a mutant that bisects the programs that do not fail
FindChecked_Inverted ==
  /\ pc = "ffp_checked"
  /\ pc' = IF result THEN "ffp_loop" ELSE "bisect_call"
  /\ UNCHANGED <<config, search, shrinker, oracle, runv, err>>

\* if self.program_fails(program):
FindChecked ==
  /\ pc = "ffp_checked"
  /\ pc' = IF result THEN "bisect_call" ELSE "ffp_loop"
  /\ UNCHANGED <<config, search, shrinker, oracle, runv, err>>

\* a mutant that lets an example of the same length replace the best one
BetterExample_OrEqual(p, best) == best = None \/ Len(p) <= Len(best)

\* (best_example is None) or (len(program) < len(best_example))
BetterExample(p, best) == best = None \/ Len(p) < Len(best)

\* a mutant that stops one example late
GoodEnough_Late(found) == found > good_enough

\* if examples_found >= self.good_enough:
GoodEnough(found) == found >= good_enough

\* a mutant that forgets the raise and returns best_example as it is
ExhaustedRaises_Never(best) == FALSE

\* if best_example is None: raise NoFailingProgram
ExhaustedRaises(best) == best = None

\* the loop is over: raise NoFailingProgram, or return the best example
FindExhausted ==
  /\ pc = "ffp_loop" /\ iter >= n_iters
  /\ IF ExhaustedRaises(best_example)
     THEN /\ pc' = "ffp_raised" /\ UNCHANGED first_try
     ELSE /\ pc' = "ffp_returned" /\ first_try' = best_example
  /\ UNCHANGED <<config, search, shrinker, oracle, minimal, returned, replay,
                 origin, err>>

(***************************************************************************)
(* find_failing_initial_segment                                            *)
(***************************************************************************)
\* a mutant that starts with low = 1, a prefix nobody asked about
BisectCall_LowOne ==
  /\ pc = "bisect_call"
  /\ low' = 1 /\ high' = Len(program)
  /\ queries' = 0
  /\ pc' = "bisect_loop"
  /\ UNCHANGED <<config, iter, examples_found, best_example, program,
                 examples, shrinker, oracle, runv, err>>

\* low = 0; high = len(program)
BisectCall ==
  /\ pc = "bisect_call"
  /\ low' = 0 /\ high' = Len(program)
  /\ queries' = 0
  /\ pc' = "bisect_loop"
  /\ UNCHANGED <<config, iter, examples_found, best_example, program,
                 examples, shrinker, oracle, runv, err>>

\* a mutant that scans the prefixes one by one
Mid_Next(l, h) == l + 1

\* mid = (low + high) // 2
Mid(l, h) == (l + h) \div 2

\* while high - low > 1: ask the oracle about program[:mid]
BisectQuery ==
  /\ pc = "bisect_loop" /\ high - low > 1
  /\ Call(Prefix(program, Mid(low, high)), "bisect_ret")
  /\ queries' = queries + 1
  /\ UNCHANGED <<config, iter, examples_found, best_example, program, low,
                 high, examples, shrinker, runv, err>>

\* a mutant that moves the wrong end
BisectRet_Swapped ==
  /\ pc = "bisect_ret"
  /\ IF result
     THEN low' = Mid(low, high) /\ UNCHANGED high
     ELSE high' = Mid(low, high) /\ UNCHANGED low
  /\ pc' = "bisect_loop"
  /\ UNCHANGED <<config, iter, examples_found, best_example, program,
                 examples, queries, shrinker, oracle, runv, err>>

\* if self.program_fails(x): high = mid  else: low = mid
BisectRet ==
  /\ pc = "bisect_ret"
  /\ IF result
     THEN high' = Mid(low, high) /\ UNCHANGED low
     ELSE low' = Mid(low, high) /\ UNCHANGED high
  /\ pc' = "bisect_loop"
  /\ UNCHANGED <<config, iter, examples_found, best_example, program,
                 examples, queries, shrinker, oracle, runv, err>>

\* return program[:high], to the caller of the method
BisectReturnDirect ==
  /\ pc = "bisect_loop" /\ high - low <= 1
  /\ entry = "bisect"
  /\ returned' = Prefix(program, high)
  /\ pc' = "done"
  /\ UNCHANGED <<config, search, shrinker, oracle, first_try, minimal, replay,
                 origin, err>>

\* return program[:high], to find_failing_program, which records the
\* example, keeps the best one and returns it when it has seen enough
BisectReturnRecord ==
  /\ pc = "bisect_loop" /\ high - low <= 1
  /\ entry # "bisect"
  /\ LET seg == Prefix(program, high)
         better == BetterExample(seg, best_example)
         best == IF better THEN seg ELSE best_example
     IN /\ program' = seg
        /\ examples_found' = examples_found + 1
        /\ examples' = Append(examples, seg)
        /\ best_example' = best
        /\ origin' = IF better THEN program ELSE origin
        /\ IF GoodEnough(examples_found + 1)
           THEN /\ pc' = "ffp_returned" /\ first_try' = best
           ELSE /\ pc' = "ffp_loop" /\ UNCHANGED first_try
  /\ UNCHANGED <<config, iter, low, high, queries, shrinker, oracle, minimal,
                 returned, replay, err>>

(***************************************************************************)
(* run, after the search                                                   *)
(***************************************************************************)
\* a mutant that lets NoFailingProgram go on to the caller of run()
RunNoFailingProgram_Reraise ==
  /\ pc = "ffp_raised"
  /\ SearchOver
  /\ err' = "NoFailingProgram"
  /\ pc' = "crashed"
  /\ UNCHANGED <<config, shrinker, oracle, runv>>

\* except NoFailingProgram as e: self.inform(str(e)); return
RunNoFailingProgram ==
  /\ pc = "ffp_raised"
  /\ SearchOver
  /\ returned' = None
  /\ err' = "NoFailingProgram"
  /\ pc' = "done"
  /\ UNCHANGED <<config, shrinker, oracle, first_try, minimal, replay, origin>>

\* a mutant that hands the shrinker the example found last
RunMinimize_LastFound ==
  /\ pc = "ffp_returned"
  /\ SearchOver
  /\ mprog' = program
  /\ pc' = "min_call"
  /\ UNCHANGED <<config, current_best, si, pass, result1, oracle, runv, err>>

\* minimal = self.minimize_failing_program(first_try)
RunMinimize ==
  /\ pc = "ffp_returned"
  /\ SearchOver
  /\ mprog' = first_try
  /\ pc' = "min_call"
  /\ UNCHANGED <<config, current_best, si, pass, result1, oracle, runv, err>>

(***************************************************************************)
(* minimize_failing_program                                                *)
(***************************************************************************)
\* assert self.program_fails(program): the query
MinimizeCall ==
  /\ pc = "min_call"
  /\ arg' = mprog /\ ret' = "min_assert" /\ pc' = "program_fails"
  /\ trueOn' = {}
  /\ UNCHANGED <<config, search, shrinker, runv, result, child, last, table,
                 err>>

\* assert self.program_fails(program); current_best = program
MinimizeAssert ==
  /\ pc = "min_assert"
  /\ IF result
     THEN /\ current_best' = mprog /\ si' = 1
          /\ pc' = "shrink"
          /\ UNCHANGED err
     ELSE /\ pc' = "crashed" /\ err' = "AssertionError"
          /\ UNCHANGED <<current_best, si>>
  /\ UNCHANGED <<config, search, mprog, pass, result1, oracle, runv>>

\* a mutant that scans the candidates from the last one to the first
ShrinkQuery_Backwards ==
  /\ pc = "shrink" /\ si <= Len(shrink(current_best))
  /\ Call(shrink(current_best)[Len(shrink(current_best)) - si + 1], "min_ret")
  /\ UNCHANGED <<config, search, shrinker, runv, err>>

\* for child in self.shrink(current_best): if self.program_fails(child)
ShrinkQuery ==
  /\ pc = "shrink" /\ si <= Len(shrink(current_best))
  /\ Call(shrink(current_best)[si], "min_ret")
  /\ UNCHANGED <<config, search, shrinker, runv, err>>

\* a mutant that takes every candidate, failing or not
ShrinkRet_TakeAll ==
  /\ pc = "min_ret"
  /\ current_best' = arg /\ si' = 1
  /\ pc' = "shrink"
  /\ UNCHANGED <<config, search, mprog, pass, result1, oracle, runv, err>>

\* a mutant that goes on with the scan after a move instead of restarting
ShrinkRet_NoRestart ==
  /\ pc = "min_ret"
  /\ IF result
     THEN current_best' = arg /\ UNCHANGED si
     ELSE si' = si + 1 /\ UNCHANGED current_best
  /\ pc' = "shrink"
  /\ UNCHANGED <<config, search, mprog, pass, result1, oracle, runv, err>>

\* a mutant that passes over the candidate after one that does not fail
ShrinkRet_SkipOne ==
  /\ pc = "min_ret"
  /\ IF result
     THEN current_best' = arg /\ si' = 1
     ELSE /\ si' = IF si < Len(shrink(current_best)) THEN si + 2 ELSE si + 1
          /\ UNCHANGED current_best
  /\ pc' = "shrink"
  /\ UNCHANGED <<config, search, mprog, pass, result1, oracle, runv, err>>

\* a mutant that restarts the scan without taking the failing candidate
ShrinkRet_NoMove ==
  /\ pc = "min_ret"
  /\ IF result
     THEN si' = 1 /\ UNCHANGED current_best
     ELSE si' = si + 1 /\ UNCHANGED current_best
  /\ pc' = "shrink"
  /\ UNCHANGED <<config, search, mprog, pass, result1, oracle, runv, err>>

\* current_best = child; break  (the while loop then scans anew), or the
\* next candidate of this scan
ShrinkRet ==
  /\ pc = "min_ret"
  /\ IF result
     THEN current_best' = arg /\ si' = 1
     ELSE si' = si + 1 /\ UNCHANGED current_best
  /\ pc' = "shrink"
  /\ UNCHANGED <<config, search, mprog, pass, result1, oracle, runv, err>>

\* a mutant that returns the candidate it tried last
MinimizeReturn_LastChild ==
  /\ pc = "shrink" /\ si > Len(shrink(current_best))
  /\ minimal' = arg
  /\ pc' = CASE entry = "run" -> "min_returned"
             [] entry = "minimize" /\ pass = 1 -> "min_again"
             [] OTHER -> "done"
  /\ returned' = IF entry = "minimize" /\ pass = 2 THEN arg ELSE returned
  /\ UNCHANGED <<config, search, shrinker, oracle, first_try, replay, origin,
                 err>>

\* the for loop's else: return current_best
MinimizeReturn ==
  /\ pc = "shrink" /\ si > Len(shrink(current_best))
  /\ minimal' = current_best
  /\ pc' = CASE entry = "run" -> "min_returned"
             [] entry = "minimize" /\ pass = 1 -> "min_again"
             [] OTHER -> "done"
  /\ returned' = IF entry = "minimize" /\ pass = 2 THEN current_best
                 ELSE returned
  /\ UNCHANGED <<config, search, shrinker, oracle, first_try, replay, origin,
                 err>>

\* the caller hands the result to minimize_failing_program once more
MinimizeAgain ==
  /\ pc = "min_again"
  /\ result1' = minimal
  /\ mprog' = minimal
  /\ pass' = 2
  /\ pc' = "min_call"
  /\ UNCHANGED <<config, search, current_best, si, oracle, runv, err>>

(***************************************************************************)
(* run, after the shrinker; print_program_results                          *)
(***************************************************************************)
\* if self.print_output: self.print_program_results(minimal); return minimal
RunReport ==
  /\ pc = "min_returned"
  /\ IF print_output
     THEN pc' = "print" /\ UNCHANGED returned
     ELSE pc' = "done" /\ returned' = minimal
  /\ UNCHANGED <<config, search, shrinker, oracle, first_try, minimal, replay,
                 origin, err>>

\* what becomes of the real replay in the body of print_program_results:
\* try: run_program; assert False; except Exception: print_exc().  The
\* exception of the program, like the AssertionError of the assert, is an
\* Exception and is "printed"; another one "escapes".
ReplayEnds(o) == IF o = "base" THEN "escapes" ELSE "printed"

\* print_program_results without fork: the simulated replay, the log, then
\* the real replay
PrintInProcess ==
  /\ pc = "print" /\ ~fork
  /\ \E o \in RealRun(minimal) :
       /\ table' = Remember(minimal, o)
       /\ replay' = o
       /\ IF ReplayEnds(o) = "escapes"
          THEN pc' = "crashed" /\ err' = "BaseException" /\ UNCHANGED returned
          ELSE pc' = "done" /\ returned' = minimal /\ UNCHANGED err
  /\ UNCHANGED <<config, search, shrinker, arg, ret, result, child, last,
                 trueOn, first_try, minimal, origin>>

\* print_program_results with fork, parent side: pid = os.fork()
PrintFork ==
  /\ pc = "print" /\ fork
  /\ child = NoChild
  /\ child' = [kind |-> "print", st |-> "running", status |-> 0]
  /\ pc' = "print_wait"
  /\ UNCHANGED <<config, search, shrinker, arg, ret, result, last, table,
                 trueOn, runv, err>>

\* the child: the body with self.fork = False, then finally: os._exit(0)
ChildPrint ==
  /\ child.kind = "print" /\ child.st = "running"
  /\ \E o \in RealRun(minimal) :
       /\ table' = Remember(minimal, o)
       /\ replay' = o
  /\ child' = [kind |-> "print", st |-> "exited", status |-> 0]
  /\ UNCHANGED <<config, search, shrinker, arg, ret, result, last, trueOn,
                 first_try, minimal, returned, origin, pc, err>>

\* os.waitpid(pid, 0); return  -- and run returns minimal
PrintWait ==
  /\ pc = "print_wait" /\ child.kind = "print" /\ child.st = "exited"
  /\ child' = NoChild
  /\ returned' = minimal
  /\ pc' = "done"
  /\ UNCHANGED <<config, search, shrinker, arg, ret, result, last, table,
                 trueOn, first_try, minimal, replay, origin, err>>

(***************************************************************************)
(* The specifications.                                                     *)
(***************************************************************************)
OracleStep ==
  \/ ProgramFailsInProcess
  \/ ProgramFailsFork
  \/ ChildProgramFails
  \/ ProgramFailsWait

BisectStep ==
  \/ BisectCall
  \/ BisectQuery
  \/ BisectRet

MinimizeStep ==
  \/ MinimizeCall
  \/ MinimizeAssert
  \/ ShrinkQuery
  \/ ShrinkRet
  \/ MinimizeReturn

\* the steps of run() that every grammar can take
RunStep ==
  \/ RunCall
  \/ FindGenerate
  \/ FindChecked
  \/ FindExhausted
  \/ BisectStep
  \/ BisectReturnRecord
  \/ RunNoFailingProgram
  \/ RunMinimize
  \/ MinimizeStep
  \/ RunReport
  \/ PrintInProcess
  \/ PrintFork
  \/ ChildPrint
  \/ PrintWait
  \/ OracleStep

\* run() on a machine built with any of the bounded settings
Init ==
  /\ fork \in BOOLEAN /\ print_output \in BOOLEAN
  /\ n_iters \in 0..MaxIters
  /\ prog_length \in 1..MaxLen
  /\ good_enough \in 0..MaxGood
  /\ languages \in Grammars
  /\ subject \in {"stack", "flaky"}
  /\ entry = "run" /\ pc = "run_call"
  /\ program = <<>> /\ mprog = <<>> /\ table = EmptyTable
  /\ FreshLocals

Next ==
  \/ RunStep
  \/ FindGenerateRaises

Spec == Init /\ [][Next]_vars

(***************************************************************************)
(* minimize_failing_program(P) called on any program P over a grammar,     *)
(* against any subject, and called again on what it returned.              *)
(***************************************************************************)
InitMinimize ==
  /\ fork \in BOOLEAN /\ print_output = FALSE
  /\ n_iters = 0 /\ prog_length = MaxMinLen /\ good_enough = 0
  /\ languages \in Grammars
  /\ subject \in {"stack", "table", "flaky"}
  /\ entry = "minimize" /\ pc = "min_call"
  /\ mprog \in SeqsUpTo(languages, MaxMinLen)
  /\ program = <<>> /\ table = EmptyTable
  /\ FreshLocals

NextMinimize ==
  \/ MinimizeStep
  \/ MinimizeAgain
  \/ OracleStep

SpecMinimize == InitMinimize /\ [][NextMinimize]_vars

\* the same, with the interpreter and the child processes going on: a
\* statement that can be executed is executed, a run of the subject ends
SpecMinimizeFair == SpecMinimize /\ WF_vars(NextMinimize)

(***************************************************************************)
(* find_failing_initial_segment(P) called on a program whose whole length  *)
(* fails: against the stack, or against a subject whose outcome on every   *)
(* prefix is drawn freely (the empty prefix passes, the whole raises).     *)
(***************************************************************************)
Prefixes(p) == {Prefix(p, k) : k \in 0..Len(p)}

PrefixTables(p) ==
  {t \in [Prefixes(p) \ {<<>>} -> {"ok", "exc"}] : t[p] = "exc"}

InitBisect ==
  /\ fork \in BOOLEAN /\ print_output = FALSE
  /\ n_iters = 0 /\ prog_length \in 1..MaxBisectLen /\ good_enough = 0
  /\ languages = {"Push", "Pop"}
  /\ subject \in {"stack", "table"}
  /\ entry = "bisect" /\ pc = "bisect_call"
  /\ program \in SeqsOfLen(languages, prog_length)
  /\ mprog = <<>>
  /\ IF subject = "table"
     THEN table \in PrefixTables(program)
     ELSE table = EmptyTable /\ Raised(StackRun(program, 1, 0))
  /\ FreshLocals

NextBisect ==
  \/ BisectStep
  \/ BisectReturnDirect
  \/ OracleStep

SpecBisect == InitBisect /\ [][NextBisect]_vars

\* the same, with the interpreter and the child processes going on
SpecBisectFair == SpecBisect /\ WF_vars(NextBisect)

(***************************************************************************)
(* The scenario of the specification: run() on a machine whose grammar is  *)
(* {Push, Pop}, against the integer stack, with programs of length 5.      *)
(***************************************************************************)
ScenarioProgram == <<"Push", "Pop", "Pop", "Push", "Pop">>

InitScenario ==
  /\ fork \in BOOLEAN /\ print_output \in BOOLEAN
  /\ n_iters \in 1..MaxIters /\ prog_length = Len(ScenarioProgram)
  /\ good_enough \in 1..MaxGood
  /\ languages = {"Push", "Pop"}
  /\ subject = "stack"
  /\ entry = "run" /\ pc = "run_call"
  /\ program = <<>> /\ mprog = <<>> /\ table = EmptyTable
  /\ FreshLocals

SpecScenario == InitScenario /\ [][RunStep]_vars

(***************************************************************************)
(* run() up to the entry assertion of minimize_failing_program, against    *)
(* any subject: the search, the bisection of every failing program, and    *)
(* the call of the shrinker on what the search returned.                   *)
(***************************************************************************)
InitSearch ==
  /\ fork \in BOOLEAN /\ print_output = FALSE
  /\ n_iters \in 0..MaxSearchIters
  /\ prog_length \in 1..MaxLen
  /\ good_enough \in 0..MaxGood
  /\ languages \in Grammars
  /\ subject \in {"stack", "table", "flaky"}
  /\ entry = "run" /\ pc = "run_call"
  /\ program = <<>> /\ mprog = <<>> /\ table = EmptyTable
  /\ FreshLocals

NextSearch ==
  \/ RunCall
  \/ FindGenerate
  \/ FindGenerateRaises
  \/ FindChecked
  \/ FindExhausted
  \/ BisectStep
  \/ BisectReturnRecord
  \/ RunNoFailingProgram
  \/ RunMinimize
  \/ MinimizeCall
  \/ MinimizeAssert
  \/ OracleStep

SpecSearch == InitSearch /\ [][NextSearch]_vars

(***************************************************************************)
(* Notions the properties are stated with.                                 *)
(***************************************************************************)
\* the subject gives the same outcome whenever it runs the same program
Deterministic == subject \in {"stack", "table"}

\* a deterministic subject raises on p (p's outcome has been decided)
Fails(p) ==
  /\ p # <<>>
  /\ IF subject = "stack" THEN Raised(StackRun(p, 1, 0))
     ELSE p \in DOMAIN table /\ Raised(table[p])

\* minimize_failing_program has returned
MinimizeReturned ==
  \/ pc \in {"min_again", "min_returned", "print", "print_wait"}
  \/ pc = "done" /\ err = "none" /\ entry # "bisect"
  \/ pc = "crashed" /\ replay # "none"

\* the length of the shortest failing prefix of p, found by a linear scan
LinearScan(p) ==
  CHOOSE h \in 1..Len(p) :
    /\ Fails(Prefix(p, h))
    /\ \A k \in 1..(h - 1) : ~Fails(Prefix(p, k))

\* every prefix longer than a failing prefix fails too
PrefixMonotone(p) ==
  \A j, k \in 1..Len(p) : j < k /\ Fails(Prefix(p, j)) => Fails(Prefix(p, k))

\* the first of the shortest among the sequences exs
FirstShortest(exs) ==
  exs[CHOOSE k \in 1..Len(exs) :
        /\ \A j \in 1..Len(exs) : Len(exs[k]) <= Len(exs[j])
        /\ \A j \in 1..(k - 1) : Len(exs[j]) > Len(exs[k])]

\* how many different examples were recorded
DistinctExamples == Cardinality({examples[k] : k \in 1..Len(examples)})

(***************************************************************************)
(* C1.  What minimize_failing_program returns is a program the oracle      *)
(* reported failing to this very call: the argument, confirmed by the      *)
(* entry assertion, or a shrink candidate for which program_fails          *)
(* answered True; with a deterministic subject, its real run raises.       *)
(***************************************************************************)
C1_MinimizeReturnsFailing ==
  MinimizeReturned =>
    /\ minimal \in trueOn
    /\ Deterministic => Fails(minimal)

C1_Witness ==
  /\ pc = "min_again" /\ subject = "flaky"
  /\ minimal # mprog /\ Len(minimal) >= 1
  /\ minimal \in trueOn

(***************************************************************************)
(* C2 as stated.  Whatever the oracle answers on the prefixes,             *)
(* find_failing_initial_segment returns the shortest failing prefix, the   *)
(* one a linear scan finds.                                                *)
(***************************************************************************)
C2_BisectFindsShortestPrefix ==
  pc = "done" /\ entry = "bisect" =>
    returned = Prefix(program, LinearScan(program))

(***************************************************************************)
(* C2 amended.  find_failing_initial_segment returns program[:h] with      *)
(* 0 < h <= len(program) such that program[:h] fails and program[:h-1]     *)
(* does not; h is the linear scan's result when every prefix longer than   *)
(* a failing prefix fails too.                                             *)
(***************************************************************************)
C2_BisectFindsBoundary ==
  pc = "done" /\ entry = "bisect" =>
    LET h == Len(returned)
    IN /\ 0 < h /\ h <= Len(program)
       /\ returned = Prefix(program, h)
       /\ Fails(returned)
       /\ ~Fails(Prefix(program, h - 1))
       /\ PrefixMonotone(program) => h = LinearScan(program)

C2_Witness ==
  /\ pc = "done" /\ entry = "bisect" /\ subject = "table"
  /\ Len(program) >= 4
  /\ ~PrefixMonotone(program)
  /\ LinearScan(program) < Len(returned)
  /\ Len(returned) < Len(program)

(***************************************************************************)
(* C3.  Every candidate the oracle is asked about in the shrink loop is    *)
(* strictly shorter than current_best, current_best never gets longer      *)
(* from one step of the loop to the next, and what minimize returns is no  *)
(* longer than its argument.                                               *)
(***************************************************************************)
C3_ShrinkNeverGrows ==
  [][/\ pc = "min_ret" => Len(arg) < Len(current_best)
     /\ pc \in {"shrink", "min_ret"} => Len(current_best') <= Len(current_best)
     /\ pc = "shrink" /\ pc' # "shrink" /\ pc' # "program_fails"
          => Len(minimal') <= Len(mprog)]_vars

C3_Witness ==
  /\ pc = "min_again"
  /\ Len(mprog) = 3 /\ Len(minimal) = 1
  /\ Cardinality(trueOn) = 3

(***************************************************************************)
(* C4.  With a deterministic subject, minimize_failing_program called on   *)
(* its own result passes the entry assertion, raises nothing and returns   *)
(* that same program.                                                      *)
(***************************************************************************)
C4_MinimizeIdempotent ==
  Deterministic /\ pass = 2 =>
    /\ pc # "crashed"
    /\ pc = "done" => returned = result1

C4_Witness ==
  /\ pc = "done" /\ entry = "minimize" /\ subject = "table"
  /\ pass = 2 /\ returned = result1
  /\ Len(returned) = 2
  /\ Cardinality(DOMAIN table) >= 4

(***************************************************************************)
(* C5 as stated.  Every oracle query that has ended gave its caller a      *)
(* boolean, True exactly when the real run raised, in process and forked   *)
(* alike; no exception got past program_fails.                             *)
(***************************************************************************)
C5_OracleAlwaysAnswers ==
  last.answer # "none" =>
    last.answer = (IF Raised(last.outcome) THEN "true" ELSE "false")

(***************************************************************************)
(* C6.  The best example is at every moment the first of the shortest      *)
(* examples recorded so far, and it is what find_failing_program returns:  *)
(* no recorded example is shorter, and none of the same length is older.   *)
(***************************************************************************)
C6_BestIsFirstShortest ==
  /\ examples # <<>> => best_example = FirstShortest(examples)
  /\ pc = "ffp_returned" =>
       /\ examples # <<>>
       /\ first_try = FirstShortest(examples)
       /\ \A k \in 1..Len(examples) : Len(first_try) <= Len(examples[k])

C6_Witness ==
  /\ pc = "ffp_returned" /\ Len(examples) = 2
  /\ Len(examples[1]) = Len(examples[2]) /\ examples[1] # examples[2]
  /\ first_try = examples[1]

(***************************************************************************)
(* C7 as stated.  find_failing_program generates at most n_iters           *)
(* programs, returns before the budget is spent only once good_enough      *)
(* distinct failing examples were found, and goes on with nothing once     *)
(* they were.                                                              *)
(***************************************************************************)
C7_StopsOnDistinctExamples ==
  /\ iter <= n_iters
  /\ pc = "ffp_returned" /\ iter < n_iters => DistinctExamples >= good_enough
  /\ examples_found >= 1 /\ pc # "ffp_returned" => examples_found < good_enough

(***************************************************************************)
(* C7 amended.  find_failing_program generates at most n_iters programs,   *)
(* returns before the budget is spent only once it counted good_enough     *)
(* failing generated programs (the count is not of distinct examples: the  *)
(* same example found twice counts twice), and having counted them goes    *)
(* on with nothing: it returns in the step that records the example.       *)
(***************************************************************************)
C7_StopsOnCountedExamples ==
  /\ iter <= n_iters
  /\ examples_found = Len(examples)
  /\ pc = "ffp_returned" /\ iter < n_iters => examples_found >= good_enough
  /\ examples_found >= 1 /\ pc # "ffp_returned" => examples_found < good_enough

C7_Witness ==
  /\ pc = "ffp_returned" /\ iter < n_iters
  /\ good_enough = 2 /\ examples_found = 2
  /\ examples[1] = examples[2]

(***************************************************************************)
(* C8.  find_failing_program raises NoFailingProgram only with the budget  *)
(* spent and no example found, and whenever it returns it returns the      *)
(* best of at least one example, a non-empty program and never None,       *)
(* also when the budget ran out before good_enough examples were found.    *)
(***************************************************************************)
C8_RaisesIffNothingFound ==
  /\ pc = "ffp_raised" => iter = n_iters /\ examples_found = 0
  /\ pc = "ffp_returned" =>
       /\ examples_found >= 1
       /\ first_try = best_example
       /\ first_try # None /\ first_try # <<>>
  /\ pc = "ffp_loop" /\ iter >= n_iters =>
       (examples_found = 0 <=> best_example = None)

C8_Witness ==
  /\ pc = "ffp_returned" /\ iter = n_iters
  /\ examples_found = 1 /\ good_enough = 2

(***************************************************************************)
(* C9 as stated.  When the real replay of print_program_results does not   *)
(* raise, run() does not come to a normal end.                             *)
(***************************************************************************)
C9_SilentReplayAborts ==
  replay = "ok" => ~(pc = "done" /\ returned = minimal)

(***************************************************************************)
(* C10.  Against the integer stack, the oracle reports                     *)
(* [Push, Pop, Pop, Push, Pop] failing, find_failing_initial_segment       *)
(* returns [Push, Pop, Pop] for it, and minimize_failing_program turns     *)
(* that prefix into [Pop].                                                 *)
(***************************************************************************)
C10_Scenario ==
  /\ pc = "ffp_checked" /\ program = ScenarioProgram => result
  /\ pc = "bisect_loop" /\ program = ScenarioProgram /\ high - low <= 1 =>
       Prefix(program, high) = <<"Push", "Pop", "Pop">>
  /\ MinimizeReturned /\ origin = ScenarioProgram =>
       /\ mprog = <<"Push", "Pop", "Pop">>
       /\ minimal = <<"Pop">>

C10_Witness ==
  /\ pc = "done" /\ origin = ScenarioProgram
  /\ mprog = <<"Push", "Pop", "Pop">>
  /\ returned = <<"Pop">>

(***************************************************************************)
(* C11.  When find_failing_program raised NoFailingProgram, the next step  *)
(* of run() is its return of None: nothing is raised, and no oracle query, *)
(* no shrinker call, no replay and no child process comes with or after    *)
(* that step.                                                              *)
(***************************************************************************)
C11_NoFailingProgramReturnsNone ==
  [][/\ pc = "ffp_raised" =>
          /\ pc' = "done" /\ returned' = None /\ err' = "NoFailingProgram"
          /\ UNCHANGED <<last, child, table, trueOn, minimal, replay, mprog>>
     /\ err = "NoFailingProgram" => FALSE]_vars

C11_Witness ==
  /\ pc = "done" /\ err = "NoFailingProgram" /\ returned = None
  /\ n_iters >= 2 /\ last.answer = "false"
  /\ minimal = <<>> /\ replay = "none" /\ child = NoChild

(***************************************************************************)
(* C12 as stated.  The program run() hands to minimize_failing_program is  *)
(* the failing example that was found first.                               *)
(***************************************************************************)
C12_ShrinksFirstFound ==
  [][pc = "ffp_returned" => pc' = "min_call" /\ mprog' = examples[1]]_vars

(***************************************************************************)
(* C12 amended.  The program run() hands to minimize_failing_program is    *)
(* the shortest failing example found, the earliest of them when several   *)
(* are equally short; it is the example found first exactly when no later  *)
(* example is strictly shorter than it.                                    *)
(***************************************************************************)
C12_ShrinksFirstShortest ==
  [][pc = "ffp_returned" =>
       /\ pc' = "min_call"
       /\ mprog' = FirstShortest(examples)
       /\ (mprog' = examples[1]) <=>
            \A k \in 1..Len(examples) : Len(examples[k]) >= Len(examples[1])]_vars

\* two examples, the second one shorter, and run() about to call the shrinker
C12_Witness ==
  /\ pc = "ffp_returned" /\ ENABLED RunMinimize
  /\ examples = << <<"Push", "Pop", "Pop">>, <<"Pop">> >>
  /\ first_try = <<"Pop">>

\* find_failing_initial_segment is in its loop: at the test of the while,
\* or inside an iteration, waiting for the oracle or about to move an end
InBisectLoop == pc \in {"bisect_loop", "program_fails", "waitpid", "bisect_ret"}

(***************************************************************************)
(* C13.  With a deterministic oracle, on a program that fails as a whole   *)
(* (the empty prefix never fails), in every state of the loop of           *)
(* find_failing_initial_segment program[:high] fails, program[:low] does   *)
(* not, and 0 <= low < high <= len(program).                               *)
(***************************************************************************)
C13_BisectInvariant ==
  InBisectLoop /\ Deterministic =>
    /\ Fails(Prefix(program, high))
    /\ ~Fails(Prefix(program, low))
    /\ 0 <= low /\ low < high /\ high <= Len(program)

C13_Witness ==
  /\ pc = "bisect_loop" /\ subject = "table"
  /\ Len(program) = MaxBisectLen
  /\ 0 < low /\ high < Len(program) /\ high - low = 1
  /\ Fails(Prefix(program, 1))

\* a deterministic subject was run on p and did not raise (the empty
\* program runs nothing)
Passes(p) ==
  \/ p = <<>>
  \/ subject = "stack" /\ ~Raised(StackRun(p, 1, 0))
  \/ subject = "table" /\ p \in DOMAIN table /\ table[p] = "ok"

\* minimize_failing_program is scanning the candidates of current_best
InShrinkLoop ==
  /\ pc \in {"shrink", "program_fails", "waitpid", "min_ret"}
  /\ ret = "min_ret"

(***************************************************************************)
(* C14.  The candidates of the current scan that come before the one in    *)
(* turn did not fail, and when minimize_failing_program returns R the      *)
(* scan is complete: no candidate of R (R without operation i, R without   *)
(* operations i and i+1, pruned) was reported failing to this call, and    *)
(* with a deterministic subject each of them was run and did not raise.    *)
(***************************************************************************)
C14_ResultIsLocallyMinimal ==
  /\ InShrinkLoop /\ Deterministic =>
       \A k \in 1..(si - 1) : Passes(shrink(current_best)[k])
  /\ MinimizeReturned =>
       \A k \in 1..Len(shrink(minimal)) :
         /\ shrink(minimal)[k] \notin trueOn
         /\ Deterministic => Passes(shrink(minimal)[k])

C14_Witness ==
  /\ pc = "min_again" /\ subject = "table"
  /\ Len(mprog) = 3 /\ Len(minimal) = 2
  /\ Len(shrink(minimal)) = 3
  /\ \A k \in 1..3 : Passes(shrink(minimal)[k])
  /\ \E k \in 1..3 : shrink(minimal)[k] # <<>> /\ table[shrink(minimal)[k]] = "ok"

\* the candidates of p come index by index, for each index i (from 1) the
\* pruned p without operation i at place 2i-1 and, where the text has it,
\* the pruned p without operations i and i+1 at place 2i
CandidateOrder(p, pairs) ==
  \A i \in 1..Len(p) :
    /\ shrink(p)[2 * i - 1] = prune_program(DelAt(p, i))
    /\ i \in pairs => shrink(p)[2 * i] = prune_program(DelAt(DelAt(p, i), i))

\* the oracle is asked about candidate si of current_best, and (for a
\* deterministic subject, which answers alike on equal candidates) none of
\* the candidates before it fails
ScanInOrder ==
  InShrinkLoop /\ pc # "shrink" =>
    /\ si \in 1..Len(shrink(current_best))
    /\ arg = shrink(current_best)[si]
    /\ Deterministic =>
         \A k \in 1..(si - 1) : ~Fails(shrink(current_best)[k])

\* a failing candidate is taken at once and the scan starts anew on it; a
\* passing one makes way for the next candidate of the same scan
AcceptFirstFailing ==
  pc = "min_ret" =>
    IF result
    THEN current_best' = arg /\ si' = 1 /\ pc' = "shrink"
    ELSE current_best' = current_best /\ si' = si + 1 /\ pc' = "shrink"

(***************************************************************************)
(* C15 as stated.  shrink(current_best) yields two candidates for each     *)
(* index, in ascending index order, the single removal before the paired   *)
(* removal; minimize takes the first one reported failing, asks about no   *)
(* later one of that scan and restarts from the first candidate of the     *)
(* program it took.                                                        *)
(***************************************************************************)
C15_TwoCandidatesPerIndex ==
  /\ [](pc = "shrink" =>
          /\ Len(shrink(current_best)) = 2 * Len(current_best)
          /\ CandidateOrder(current_best, 1..Len(current_best)))
  /\ []ScanInOrder
  /\ [][AcceptFirstFailing]_vars

(***************************************************************************)
(* C15 amended.  shrink(current_best) yields, in ascending index order,    *)
(* the single removal and then the paired removal for each index but the   *)
(* last, and the single removal alone for the last index (2*len - 1        *)
(* candidates for a non-empty program, none for the empty one); minimize   *)
(* takes the first one reported failing, asks about no later one of that   *)
(* scan and restarts from the first candidate of the program it took.      *)
(***************************************************************************)
C15_CandidatesInOrder ==
  /\ [](pc = "shrink" =>
          /\ Len(shrink(current_best)) =
               (IF current_best = <<>> THEN 0 ELSE 2 * Len(current_best) - 1)
          /\ CandidateOrder(current_best, 1..(Len(current_best) - 1)))
  /\ []ScanInOrder
  /\ [][AcceptFirstFailing]_vars

\* the paired removal at the first index is taken after the single removal
\* there was found not to fail
C15_Witness ==
  /\ pc = "min_ret" /\ result /\ si = 2
  /\ Len(current_best) = 3
  /\ arg = prune_program(DelAt(DelAt(current_best, 1), 1))
  /\ Len(arg) = 1

\* the heights of a fresh simulation context after it executed the first
\* j - 1 operations of r
RECURSIVE HeightBefore(_, _)
HeightBefore(r, j) ==
  IF j = 1 THEN 0 ELSE SimExecute(r[j - 1], HeightBefore(r, j - 1))

\* r takes operations of c in the order c has them
Subsequence(r, c) ==
  \E f \in [1..Len(r) -> 1..Len(c)] :
    /\ \A j \in 1..Len(r) : c[f[j]] = r[j]
    /\ \A j, k \in 1..Len(r) : j < k => f[j] < f[k]

\* r is what the text says of prune_program(c)
Pruned(r, c) ==
  /\ Subsequence(r, c)
  /\ \A j \in 1..Len(r) : Applicable(r[j], HeightBefore(r, j))
  /\ \A j \in 1..Len(r) : SimRaises(r[j], HeightBefore(r, j)) => j = Len(r)

\* the programs prune_program is given while current_best is scanned: the
\* copies shrink makes; with them, the program the shrinker was called on
PruneInputs ==
  {mprog}
    \cup {DelAt(current_best, i) : i \in 1..Len(current_best)}
    \cup {DelAt(DelAt(current_best, i), i) : i \in 1..(Len(current_best) - 1)}

(***************************************************************************)
(* C16.  prune_program(candidate) is a subsequence of candidate, in        *)
(* candidate's order; every operation it keeps is applicable to the        *)
(* heights the kept operations before it lead to; an operation whose       *)
(* simulated execution raises is the last one kept.  Every candidate the   *)
(* shrinker puts to the oracle is such a program.                          *)
(***************************************************************************)
C16_PruneKeepsApplicable ==
  /\ \A c \in PruneInputs : Pruned(prune_program(c), c)
  /\ InShrinkLoop /\ pc # "shrink" => \E c \in PruneInputs : Pruned(arg, c)

\* the candidate [Peek] of [Use, Peek, Make]: the copy is [Peek, Make],
\* Peek raises on the empty context and Make is discarded
C16_Witness ==
  /\ pc = "program_fails" /\ ret = "min_ret" /\ si = 1
  /\ current_best = <<"Use", "Peek", "Make">>
  /\ arg = <<"Peek">>
  /\ prune_program(current_best) = <<"Peek">>

\* what the parent process holds: the locals of its methods and its position
parent == <<search, shrinker, arg, ret, result, first_try, minimal, returned,
            pc, err>>

(***************************************************************************)
(* C17.  With fork, a child is forked only when no child exists; while a   *)
(* child runs the parent waits in waitpid and the only step taken is the   *)
(* child's exit, which leaves the parent's state alone; an oracle child    *)
(* exits with a nonzero status exactly when its run raised, a replay       *)
(* child with status 0; without fork there is never a child.               *)
(***************************************************************************)
C17_OneChildParentBlocks ==
  /\ [](/\ ~fork => child = NoChild
        /\ child.kind \in {"none", "oracle", "print"}
        /\ pc \in {"program_fails", "print"} => child = NoChild
        /\ child.kind = "oracle" => pc = "waitpid"
        /\ child.kind = "print" => pc = "print_wait"
        /\ child.kind = "oracle" /\ child.st = "exited" =>
             (child.status # 0 <=> Raised(last.outcome))
        /\ child.kind = "print" /\ child.st = "exited" => child.status = 0)
  /\ [][child.st = "running" =>
          /\ child'.st = "exited" /\ child'.kind = child.kind
          /\ UNCHANGED parent]_vars

C17_Witness ==
  /\ fork /\ pc = "print_wait"
  /\ child = [kind |-> "print", st |-> "exited", status |-> 0]
  /\ replay = "exc"
  /\ last.outcome = "ok" /\ last.answer = "false"
  /\ Len(minimal) = 2

\* the moves this call of minimize_failing_program accepted so far: the
\* programs it was told are failing, but for its argument
Accepted == trueOn \ {mprog}

(***************************************************************************)
(* C18.  minimize_failing_program ends, whatever the subject answers: it   *)
(* returns, or the entry assertion or an exception of the oracle ends it.  *)
(* The programs it accepts are candidates strictly shorter than its        *)
(* argument and of different lengths, so it accepts at most len(P) moves.  *)
(***************************************************************************)
C18_MinimizeTerminates ==
  /\ [](pc # "min_call" =>
          /\ \A p \in Accepted : Len(p) < Len(mprog)
          /\ \A p, q \in Accepted : Len(p) = Len(q) => p = q
          /\ Cardinality(Accepted) <= Len(mprog)
          /\ InShrinkLoop \/ MinimizeReturned => current_best \in trueOn)
  /\ [][pc = "min_ret" /\ result => Len(current_best') < Len(current_best)]_vars
  /\ <>(pc \in {"done", "crashed"})

\* a call on a program of three operations has returned after it accepted
\* two moves
C18_Witness ==
  /\ pc = "min_again" /\ subject = "flaky"
  /\ Len(mprog) = 3 /\ Len(minimal) = 1
  /\ Cardinality(Accepted) = 2

\* the least k with 2^k >= n
RECURSIVE CeilLog2(_)
CeilLog2(n) == IF n <= 1 THEN 0 ELSE 1 + CeilLog2((n + 1) \div 2)

(***************************************************************************)
(* C19.  find_failing_initial_segment on a program of n >= 1 operations    *)
(* returns, after at most ceil(log2(n)) oracle calls (the calls made and   *)
(* the calls the remaining gap can still take never exceed that number),   *)
(* high - low getting strictly smaller in every iteration; on a program    *)
(* of one operation it returns the program without any oracle call.        *)
(***************************************************************************)
C19_BisectLogarithmic ==
  /\ [](InBisectLoop \/ pc = "done" =>
          /\ queries <= CeilLog2(Len(program))
          /\ pc \in {"bisect_loop", "done"} =>
               queries + CeilLog2(high - low) <= CeilLog2(Len(program)))
  /\ [](pc = "done" /\ Len(program) = 1 => queries = 0 /\ returned = program)
  /\ [][pc = "bisect_ret" =>
          /\ high' - low' < high - low
          /\ high' - low' >= 1]_vars
  /\ <>(pc = "done")

C19_Witness ==
  /\ pc = "done" /\ entry = "bisect"
  /\ Len(program) = MaxBisectLen
  /\ queries = CeilLog2(MaxBisectLen) /\ queries >= 3

(***************************************************************************)
(* C20.  What find_failing_program returns to run() is a non-empty prefix  *)
(* of a program generate_program built, of at most prog_length             *)
(* operations, and with a deterministic subject it is a failing program:   *)
(* the entry assertion of minimize_failing_program, reached from run(),    *)
(* then finds program_fails true and raises no AssertionError.             *)
(***************************************************************************)
C20_EntryAssertionHolds ==
  /\ pc \in {"ffp_returned", "min_call"} /\ entry = "run" =>
       /\ first_try # None /\ first_try # <<>>
       /\ Len(first_try) <= prog_length
       /\ origin \in Generable(languages, prog_length)
       /\ first_try = Prefix(origin, Len(first_try))
       /\ Deterministic => Fails(first_try)
  /\ pc = "min_call" /\ entry = "run" => mprog = first_try
  /\ pc = "min_assert" /\ entry = "run" /\ Deterministic => result
  /\ entry = "run" /\ Deterministic => err # "AssertionError"

\* the assertion has passed on a proper prefix of the generated program
C20_Witness ==
  /\ pc = "shrink" /\ entry = "run" /\ subject = "table"
  /\ current_best = mprog /\ mprog = first_try
  /\ Len(origin) = 2 /\ Len(mprog) = 1
  /\ table[mprog] = "exc"

====
